---- MODULE Spec2Model ----
(***************************************************************************)
(* Model of the voice chat client: the backend client of utils/api.ts      *)
(* (validateResponse, sendMessage, sendSimpleMessage) and the call         *)
(* orchestration of components/VoiceCallInterface.tsx.                     *)
(*                                                                         *)
(* Text is a sequence of chunks.  A chunk is either one of the two         *)
(* reasoning markers, a single character of a character class the code     *)
(* tests for, or a word; CharLen gives the number of characters of each.   *)
(***************************************************************************)
EXTENDS Integers, Sequences, FiniteSets, Bags, TLC

\* ------------------------------------------------------------------ bounds
MaxRawLen == 3
MaxRetryLen == 1

\* ------------------------------------------------------------------- text
OPEN == "<think>"
CLOSE == "</think>"
CJK == "CJK"            \* one character of U+4E00..U+9FFF
EMOJI == "EMOJI"        \* one character outside U+0000..U+007F, U+00A0..U+00FF
SP == " "               \* one whitespace character
DOT == "."              \* one of . ! ?
WORD == "WORD"          \* a run of ASCII letters, WordLen characters long
PREFIX == "Asistenqu:"  \* the role prefix the prompt ends with
CJKS == "CJKS"          \* a run of U+4E00..U+9FFF, WordLen characters long
\* the fixed pieces of the greeting of initializeCall
HALO == "Halo"
SAYA == "! Saya"
KABAR == ". Bagaimana kabar Anda hari ini?"

WordLen == 44

RawAlphabet == {OPEN, CLOSE, CJK, SP, DOT, WORD, PREFIX}
RetryAlphabet == {OPEN, CJK, EMOJI, SP, WORD}

SeqsUpTo(S, n) == UNION {[1..k -> S] : k \in 0..n}

RawTexts == SeqsUpTo(RawAlphabet, MaxRawLen)
RetryTexts == SeqsUpTo(RetryAlphabet, MaxRetryLen)

CharLen(c) ==
  CASE c = OPEN -> 7
    [] c = CLOSE -> 8
    [] c = PREFIX -> 10
    [] c = WORD -> WordLen
    [] c = CJKS -> WordLen
    [] c = HALO -> 4
    [] c = SAYA -> 6
    [] c = KABAR -> 32
    [] OTHER -> 1

RECURSIVE Length(_)
Length(s) == IF s = <<>> THEN 0 ELSE CharLen(Head(s)) + Length(Tail(s))

RECURSIVE TrimStart(_)
TrimStart(s) == IF s # <<>> /\ Head(s) = SP THEN TrimStart(Tail(s)) ELSE s

RECURSIVE TrimEnd(_)
TrimEnd(s) ==
  IF s # <<>> /\ s[Len(s)] = SP THEN TrimEnd(SubSeq(s, 1, Len(s) - 1)) ELSE s

\* String.prototype.trim
Trim(s) == TrimEnd(TrimStart(s))

\* (s.match(/c/g) || []).length
Count(s, c) == Cardinality({i \in 1..Len(s) : s[i] = c})

\* s.lastIndexOf(c): the character offset of the last occurrence, or -1
LastIndexOf(s, c) ==
  LET at == {i \in 1..Len(s) : s[i] = c}
  IN IF at = {} THEN -1
     ELSE LET i == CHOOSE j \in at : \A k \in at : k <= j
          IN Length(SubSeq(s, 1, i - 1))

\* s.substring(0, n), n the offset of a chunk boundary
Substring0(s, n) ==
  LET ks == {k \in 0..Len(s) : Length(SubSeq(s, 1, k)) <= n}
  IN SubSeq(s, 1, CHOOSE k \in ks : \A j \in ks : j <= k)

\* s.replace(/[set]/g, "")
RECURSIVE Strip(_, _)
Strip(s, set) ==
  IF s = <<>> THEN <<>>
  ELSE IF Head(s) \in set THEN Strip(Tail(s), set)
       ELSE <<Head(s)>> \o Strip(Tail(s), set)

Contains(s, c) == \E i \in 1..Len(s) : s[i] = c

\* ---------------------------------------------------------- validateResponse
IssueUnterminated == "Incomplete <think> tags detected"
IssueForeign == "Contains non-Indonesian characters"
IssueTruncated == "Response appears to be truncated"
ClarificationFallback == <<"Maaf, bisa tolong ulangi pertanyaannya?">>
TruncationThreshold == 50

\* /[.!?。][\s]*$/.test(response.trim())
HasProperEnding(response) ==
  LET t == Trim(response) IN t # <<>> /\ t[Len(t)] = DOT

\* the text kept when start markers outnumber end markers
TruncateDanglingLast(response) ==
  IF LastIndexOf(response, OPEN) > LastIndexOf(response, CLOSE)
  THEN Trim(Substring0(response, LastIndexOf(response, OPEN)))
  ELSE Trim(response)

\* as ValidateCleaned, but without the substitution of the fallback phrase
ValidateCleanedWithoutFallback(response) ==
  IF Count(response, OPEN) > Count(response, CLOSE)
  THEN TruncateDanglingLast(response)
  ELSE Trim(response)

ValidateCleaned(response) ==
  LET openThinkTags == Count(response, OPEN)
      closeThinkTags == Count(response, CLOSE)
      cleaned == IF openThinkTags > closeThinkTags
                 THEN TruncateDanglingLast(response)
                 ELSE Trim(response)
  IN IF cleaned = <<>> \/ cleaned = <<PREFIX>>
     THEN ClarificationFallback
     ELSE cleaned

\* as ValidateIssues, but reporting the unterminated span whenever the two
\* counts differ
ValidateIssuesOnUnequalCounts(response) ==
  LET openThinkTags == Count(response, OPEN)
      closeThinkTags == Count(response, CLOSE)
  IN (IF openThinkTags # closeThinkTags THEN <<IssueUnterminated>> ELSE <<>>)
     \o (IF Contains(response, CJK) THEN <<IssueForeign>> ELSE <<>>)
     \o (IF /\ Length(response) > TruncationThreshold
            /\ ~HasProperEnding(response)
            /\ openThinkTags # closeThinkTags
         THEN <<IssueTruncated>> ELSE <<>>)

\* as ValidateIssues, but calling a long text without final punctuation
\* truncated whatever its markers
ValidateIssuesIgnoringMarkers(response) ==
  LET openThinkTags == Count(response, OPEN)
      closeThinkTags == Count(response, CLOSE)
  IN (IF openThinkTags > closeThinkTags THEN <<IssueUnterminated>> ELSE <<>>)
     \o (IF Contains(response, CJK) THEN <<IssueForeign>> ELSE <<>>)
     \o (IF /\ Length(response) > TruncationThreshold
            /\ ~HasProperEnding(response)
         THEN <<IssueTruncated>> ELSE <<>>)

\* as ValidateIssues, but looking for foreign script in the cleaned text
ValidateIssuesOnCleaned(response) ==
  LET openThinkTags == Count(response, OPEN)
      closeThinkTags == Count(response, CLOSE)
  IN (IF openThinkTags > closeThinkTags THEN <<IssueUnterminated>> ELSE <<>>)
     \o (IF Contains(ValidateCleaned(response), CJK)
         THEN <<IssueForeign>> ELSE <<>>)
     \o (IF /\ Length(response) > TruncationThreshold
            /\ ~HasProperEnding(response)
            /\ openThinkTags # closeThinkTags
         THEN <<IssueTruncated>> ELSE <<>>)

ValidateIssues(response) ==
  LET openThinkTags == Count(response, OPEN)
      closeThinkTags == Count(response, CLOSE)
  IN (IF openThinkTags > closeThinkTags THEN <<IssueUnterminated>> ELSE <<>>)
     \o (IF Contains(response, CJK) THEN <<IssueForeign>> ELSE <<>>)
     \o (IF /\ Length(response) > TruncationThreshold
            /\ ~HasProperEnding(response)
            /\ openThinkTags # closeThinkTags
         THEN <<IssueTruncated>> ELSE <<>>)

validateResponse(response) ==
  [isComplete |-> ValidateIssues(response) = <<>>,
   cleaned |-> ValidateCleaned(response),
   issues |-> ValidateIssues(response)]

Includes(seq, x) == \E i \in 1..Len(seq) : seq[i] = x

\* ------------------------------------------------------------ APIClient
\* Continuation tokens a response may carry (OllamaResponse.context).
Contexts == {<<1>>, <<2>>}
ResponseContexts ==
  {[present |-> FALSE, value |-> <<>>]}   \* no context field
    \cup {[present |-> TRUE, value |-> c] : c \in Contexts}

\* What the caller passes to sendMessage.
Messages == {"m1"}
Histories ==
  { <<>>,
    <<[role |-> "system", content |-> "h0"],
      [role |-> "user", content |-> "h1"],
      [role |-> "assistant", content |-> "h2"],
      [role |-> "user", content |-> "h3"]>> }

\* fetch rejects, or the response is not ok
FailKinds == {"network", "http"}

HistoryWindow == 3
FallbackGreeting == <<"Halo! Ada yang bisa saya bantu?">>

\* as SliceLast, but keeping the whole history
SliceNothing(h, n) == h

\* conversationHistory.slice(-n)
SliceLast(h, n) == IF Len(h) <= n THEN h ELSE SubSeq(h, Len(h) - n + 1, Len(h))

RECURSIVE HistoryLines(_)
HistoryLines(h) ==
  IF h = <<>> THEN <<>>
  ELSE LET m == Head(h)
       IN (IF m.role = "user"
           THEN <<[tag |-> "User", content |-> m.content]>>
           ELSE IF m.role = "assistant"
                THEN <<[tag |-> "Asistenqu", content |-> m.content]>>
                ELSE <<>>)
          \o HistoryLines(Tail(h))

\* The prompt as its lines: the system prompt, the history lines, the user
\* line and the open assistant line.
buildStructuredPrompt(message, conversationHistory) ==
  <<[tag |-> "system", content |-> "structured"]>>
    \o HistoryLines(SliceLast(conversationHistory, HistoryWindow))
    \o <<[tag |-> "User", content |-> message],
         [tag |-> "Asistenqu", content |-> ""]>>

simplePrompt(message) ==
  <<[tag |-> "system", content |-> "simple"],
    [tag |-> "User", content |-> message],
    [tag |-> "Asistenqu", content |-> ""]>>

VARIABLES
  context,      \* APIClient.context, the stored continuation token
  apiPc,        \* where the sendMessage call is: idle, primary, retry, done
  callArgs,     \* the arguments of the call in progress
  ctxAtCall,    \* the stored token when the call started
  requests,     \* the bodies POSTed to /api/generate by this call, in order
  primary,      \* what the backend answered to the primary request
  validation,   \* what validateResponse returned for the primary response
  retry,        \* what the backend answered to the simplified request
  result,       \* the ChatResponse the call resolves to
  apiClient     \* the module's apiClient: which instance it is (0 for null)
                \* and that instance's config

apiVars ==
  <<context, apiPc, callArgs, ctxAtCall, requests, primary, validation, retry,
    result, apiClient>>

VARIABLES
  mounted,              \* the component is mounted (the call screen is shown)
  callStatus,           \* useState callStatus
  isSpeaking,           \* useState isSpeaking
  isRecording,          \* useState isRecording
  isMuted,              \* useState isMuted
  conversationHistory,  \* useState conversationHistory, as the roles
  currentTranscript,    \* useState currentTranscript
  capabilities,         \* what the browser offers
  continuous,           \* config.speechRecognition.continuous
  recognitionRef,       \* recognitionRef.current and that object's state
  orphans,              \* recognition objects no longer referenced, not ended
  initRuns,             \* initializeCall runs suspended at an await
  greetingTimers,       \* pending setTimeout(greeting, 1000)
  restartTimers,        \* pending setTimeout(recognitionRef.current?.start())
  utterance,            \* the utterance speechSynthesis holds or played last
  cancelled,            \* cancelled utterances whose last event is pending
  inflight,             \* sendMessage calls awaiting their result
  turns,                \* user utterances accepted so far
  toggles               \* presses of the mute button so far

uiVars ==
  <<mounted, callStatus, isSpeaking, isRecording, isMuted, conversationHistory,
    currentTranscript, capabilities, continuous, recognitionRef, orphans,
    initRuns, greetingTimers, restartTimers, utterance, cancelled, inflight,
    turns, toggles>>

vars == <<apiVars, uiVars>>

NoArgs == [message |-> "", history |-> <<>>]
NoContext == [present |-> FALSE, value |-> <<>>]
NoAnswer == [status |-> "none", raw |-> <<>>, context |-> NoContext]
NoValidation == [isComplete |-> TRUE, cleaned |-> <<>>, issues |-> <<>>]
NoResult == [message |-> <<>>, success |-> FALSE, error |-> "pending"]

\* AIConfig, the fields the client adjusts; temperature in tenths
MinMaxTokens == 1500
MinTemperature == 1
MaxTemperature == 12
SimpleNumPredict == 200
DefaultMaxTokens == 1000
DefaultTemperature == 7
DefaultAIConfig ==
  [maxTokens |-> DefaultMaxTokens, temperature |-> DefaultTemperature]

Max(a, b) == IF a >= b THEN a ELSE b
Min(a, b) == IF a <= b THEN a ELSE b

\* as validateConfig, but taking the configuration as it is
validateNothing(config) == config

\* APIClient.validateConfig
validateConfig(config) ==
  [config EXCEPT !.maxTokens = Max(config.maxTokens, MinMaxTokens),
                 !.temperature = Min(Max(config.temperature, MinTemperature),
                                     MaxTemperature)]

\* the client the call screen got from getAPIClient(config.ai); lastCall is
\* the last call of getAPIClient: its argument and the instance it returned
ClientOf(config) ==
  [instance |-> 1,
   config |-> validateConfig(config),
   lastCall |-> [given |-> TRUE, config |-> config, returned |-> 1]]

\* as StoredContext, but adding the new token to the old one
MergedContext(old, respCtx) ==
  IF respCtx.present THEN old \o respCtx.value ELSE old

\* if (data.context) this.context = data.context
StoredContext(old, respCtx) ==
  IF respCtx.present THEN respCtx.value ELSE old

\* requestBody of sendMessage; an undefined context is left out of the JSON
PrimaryRequest(message, history) ==
  [kind |-> "primary",
   prompt |-> buildStructuredPrompt(message, history),
   numPredict |-> apiClient.config.maxTokens,
   hasContext |-> Len(context) > 0,
   context |-> context]

\* as SimpleRequest, but threading the stored token into the retry
SimpleRequestWithContext(message) ==
  [kind |-> "simple",
   prompt |-> simplePrompt(message),
   numPredict |-> SimpleNumPredict,
   hasContext |-> Len(context) > 0,
   context |-> context]

\* requestBody of sendSimpleMessage
SimpleRequest(message) ==
  [kind |-> "simple",
   prompt |-> simplePrompt(message),
   numPredict |-> SimpleNumPredict,
   hasContext |-> FALSE,
   context |-> <<>>]

\* as NeedsRetry, but retrying on any reported issue
NeedsRetryOnAnyIssue(v) == ~v.isComplete

\* the retry condition of sendMessage
NeedsRetry(v) ==
  /\ ~v.isComplete
  /\ \/ Includes(v.issues, IssueUnterminated)
     \/ Includes(v.issues, IssueForeign)

\* as SimpleClean, but trimming only
SimpleTrim(response) == Trim(response)

\* the cleanup of the retry's response in sendSimpleMessage
NonLatin1 == {CJK, EMOJI}
SimpleClean(response) ==
  LET cleanResponse == Strip(Strip(Trim(response), {CJK}), NonLatin1)
  IN IF cleanResponse = <<>> THEN FallbackGreeting ELSE cleanResponse

ApiInit ==
  /\ context = <<>>
  /\ apiClient = ClientOf(DefaultAIConfig)
  /\ apiPc = "idle"
  /\ callArgs = NoArgs
  /\ ctxAtCall = <<>>
  /\ requests = <<>>
  /\ primary = NoAnswer
  /\ validation = NoValidation
  /\ retry = NoAnswer
  /\ result = NoResult

\* sendMessage up to the await of the primary fetch, on the client's fields
SendMessageCall(message, history) ==
  /\ apiPc = "idle"
  /\ apiPc' = "primary"
  /\ callArgs' = [message |-> message, history |-> history]
  /\ ctxAtCall' = context
  /\ requests' = <<PrimaryRequest(message, history)>>
  /\ primary' = NoAnswer
  /\ validation' = NoValidation
  /\ retry' = NoAnswer
  /\ result' = NoResult
  /\ UNCHANGED <<context, apiClient>>

\* sendMessage up to the await of the primary fetch
SendMessage(message, history) ==
  /\ SendMessageCall(message, history)
  /\ UNCHANGED uiVars

\* as PrimaryFails, but falling back to the simplified request
PrimaryFailsThenRetries(kind) ==
  /\ apiPc = "primary"
  /\ primary' = [status |-> "fail", raw |-> <<>>, context |-> NoContext]
  /\ requests' = Append(requests, SimpleRequest(callArgs.message))
  /\ apiPc' = "retry"
  /\ UNCHANGED <<context, callArgs, ctxAtCall, result, validation, retry>>
  /\ UNCHANGED apiClient
  /\ UNCHANGED uiVars

\* the primary fetch rejects or is not ok: the catch of sendMessage
PrimaryFails(kind) ==
  /\ apiPc = "primary"
  /\ primary' = [status |-> "fail", raw |-> <<>>, context |-> NoContext]
  /\ result' = [message |-> <<>>, success |-> FALSE, error |-> kind]
  /\ apiPc' = "done"
  /\ UNCHANGED <<context, callArgs, ctxAtCall, requests, validation, retry>>
  /\ UNCHANGED apiClient
  /\ UNCHANGED uiVars

\* the primary fetch resolves: validation, context update, then either the
\* result or the call of sendSimpleMessage up to the await of its fetch
PrimaryResponds(raw, respCtx) ==
  /\ apiPc = "primary"
  /\ primary' = [status |-> "ok", raw |-> raw, context |-> respCtx]
  /\ validation' = validateResponse(raw)
  /\ context' = StoredContext(context, respCtx)
  /\ IF NeedsRetry(validation')
     THEN /\ requests' = Append(requests, SimpleRequest(callArgs.message))
          /\ apiPc' = "retry"
          /\ UNCHANGED result
     ELSE /\ result' = [message |-> validation'.cleaned, success |-> TRUE,
                        error |-> "none"]
          /\ apiPc' = "done"
          /\ UNCHANGED requests
  /\ UNCHANGED <<callArgs, ctxAtCall, retry>>
  /\ UNCHANGED apiClient
  /\ UNCHANGED uiVars

\* as RetryFails, but with the error result of the primary path
RetryFailsLikePrimary(kind) ==
  /\ apiPc = "retry"
  /\ retry' = [status |-> "fail", raw |-> <<>>, context |-> NoContext]
  /\ result' = [message |-> <<>>, success |-> FALSE, error |-> kind]
  /\ apiPc' = "done"
  /\ UNCHANGED <<context, callArgs, ctxAtCall, requests, primary, validation>>
  /\ UNCHANGED apiClient
  /\ UNCHANGED uiVars

\* the retry fetch rejects or is not ok: the catch of sendSimpleMessage
RetryFails(kind) ==
  /\ apiPc = "retry"
  /\ retry' = [status |-> "fail", raw |-> <<>>, context |-> NoContext]
  /\ result' = [message |-> FallbackGreeting, success |-> FALSE, error |-> kind]
  /\ apiPc' = "done"
  /\ UNCHANGED <<context, callArgs, ctxAtCall, requests, primary, validation>>
  /\ UNCHANGED apiClient
  /\ UNCHANGED uiVars

\* as RetryResponds, but validating the retry's response like the primary's
\* and retrying again while it is flagged
RetryRespondsRevalidating(raw, respCtx) ==
  /\ apiPc = "retry"
  /\ retry' = [status |-> "ok", raw |-> raw, context |-> respCtx]
  /\ IF NeedsRetry(validateResponse(raw))
     THEN /\ requests' = Append(requests, SimpleRequest(callArgs.message))
          /\ apiPc' = "retry"
          /\ UNCHANGED result
     ELSE /\ result' = [message |-> validateResponse(raw).cleaned,
                        success |-> TRUE, error |-> "none"]
          /\ apiPc' = "done"
          /\ UNCHANGED requests
  /\ UNCHANGED <<context, callArgs, ctxAtCall, primary, validation>>
  /\ UNCHANGED apiClient
  /\ UNCHANGED uiVars

\* as RetryResponds, but storing the retry's continuation token
RetryRespondsStoringContext(raw, respCtx) ==
  /\ apiPc = "retry"
  /\ retry' = [status |-> "ok", raw |-> raw, context |-> respCtx]
  /\ context' = IF respCtx.present THEN respCtx.value ELSE context
  /\ result' = [message |-> SimpleClean(raw), success |-> TRUE, error |-> "none"]
  /\ apiPc' = "done"
  /\ UNCHANGED <<callArgs, ctxAtCall, requests, primary, validation>>
  /\ UNCHANGED apiClient
  /\ UNCHANGED uiVars

\* the retry fetch resolves: its response is cleaned and returned
RetryResponds(raw, respCtx) ==
  /\ apiPc = "retry"
  /\ retry' = [status |-> "ok", raw |-> raw, context |-> respCtx]
  /\ result' = [message |-> SimpleClean(raw), success |-> TRUE, error |-> "none"]
  /\ apiPc' = "done"
  /\ UNCHANGED <<context, callArgs, ctxAtCall, requests, primary, validation>>
  /\ UNCHANGED apiClient
  /\ UNCHANGED uiVars

\* the caller takes the result; the client is ready for the next call
Return ==
  /\ apiPc = "done"
  /\ apiPc' = "idle"
  /\ callArgs' = NoArgs
  /\ ctxAtCall' = context
  /\ requests' = <<>>
  /\ primary' = NoAnswer
  /\ validation' = NoValidation
  /\ retry' = NoAnswer
  /\ result' = NoResult
  /\ UNCHANGED context
  /\ UNCHANGED apiClient
  /\ UNCHANGED uiVars

clearContext ==
  /\ apiPc = "idle"
  /\ context' = <<>>
  /\ ctxAtCall' = <<>>
  /\ UNCHANGED <<apiPc, callArgs, requests, primary, validation, retry, result>>
  /\ UNCHANGED apiClient
  /\ UNCHANGED uiVars

\* what the backend may answer to the request in flight
PrimaryAnswers == IF apiPc = "primary" THEN RawTexts ELSE {}
RetryAnswers == IF apiPc = "retry" THEN RetryTexts ELSE {}

ApiNext ==
  \/ \E m \in Messages, h \in Histories : SendMessage(m, h)
  \/ \E k \in FailKinds : PrimaryFails(k)
  \/ \E raw \in PrimaryAnswers, c \in ResponseContexts : PrimaryResponds(raw, c)
  \/ \E k \in FailKinds : RetryFails(k)
  \/ \E raw \in RetryAnswers, c \in ResponseContexts : RetryResponds(raw, c)
  \/ Return
  \/ clearContext

\* ---------------------------------------------------- VoiceCallInterface
MaxUserActs == 2  \* utterances accepted plus presses of the mute button
MaxTimers == 1    \* capture-restart timers pending at once


NoRecognition == [present |-> FALSE, state |-> "inactive", muted |-> FALSE]
NoUtterance == [state |-> "none", origin |-> "none", muted |-> FALSE]

\* what one recognition.onresult event carries
TranscriptKinds == {"interim", "short", "final"}
\* what sendMessage resolves to, as handleUserSpeech tells it apart
ResponseKinds == {"ok", "fail"}
\* how the browser ends an utterance removed by speechSynthesis.cancel()
CancelEvents == {"end", "error"}

\* the collections of pending things are bags: their order means nothing
With(bag, x) == bag (+) SetToBag({x})
Without(bag, x) == bag (-) SetToBag({x})

\* SpeechRecognition.stop()
Stopped(state) == IF state \in {"starting", "active"} THEN "stopping" ELSE state

\* SpeechRecognition.start(); an object not inactive throws, which is caught
Started(rec) ==
  IF rec.present /\ rec.state = "inactive"
  THEN [rec EXCEPT !.state = "starting"]
  ELSE rec

\* the recognition objects left running when the reference to rec is dropped
Orphaned(rec) ==
  IF rec.present /\ rec.state # "inactive"
  THEN SetToBag({[state |-> rec.state, muted |-> rec.muted]})
  ELSE EmptyBag

\* the recognition's state after it delivered a result
AfterResult(state, kind) ==
  IF state = "stopping" THEN "ending"
  ELSE IF kind # "interim" /\ ~continuous THEN "ending"
  ELSE state

\* speechSynthesis.cancel(): the utterance held gets its last event later
CancelledBy(utt) ==
  IF utt.state \in {"queued", "speaking"}
  THEN SetToBag({[origin |-> utt.origin, muted |-> utt.muted]})
  ELSE EmptyBag

\* as AppendTurn, but putting the new turn in front
PrependTurn(history, role) == <<role>> \o history

\* setConversationHistory((prev) => [...prev, message])
AppendTurn(history, role) == Append(history, role)

\* setState of an unmounted component is dropped
Set(old, new) == IF mounted THEN new ELSE old

\* as CapabilitiesPresent, but taking both capabilities for granted
CapabilitiesAssumed == TRUE

\* the two checks initializeCall makes before its first await
CapabilitiesPresent == capabilities.recognition /\ capabilities.synthesis

CallInit ==
  /\ mounted = TRUE
  /\ capabilities \in [recognition : BOOLEAN, synthesis : BOOLEAN]
  /\ continuous \in BOOLEAN
  /\ isSpeaking = FALSE
  /\ isRecording = FALSE
  /\ isMuted = FALSE
  /\ conversationHistory = <<>>
  /\ currentTranscript = ""
  /\ recognitionRef = NoRecognition
  /\ orphans = EmptyBag
  /\ greetingTimers = 0
  /\ restartTimers = 0
  /\ utterance = NoUtterance
  /\ cancelled = EmptyBag
  /\ inflight = 0
  /\ turns = 0
  /\ toggles = 0
  \* the mount effect has run initializeCall up to its first await
  /\ IF CapabilitiesPresent
     THEN callStatus = "connecting"
          /\ initRuns = SetToBag({[stage |-> "checking", muted |-> FALSE]})
     ELSE callStatus = "error" /\ initRuns = EmptyBag

\* speakAIMessage: cancel what is being spoken, speak the new utterance
Speak(origin) ==
  /\ utterance' = [state |-> "queued", origin |-> origin, muted |-> isMuted]
  /\ cancelled' = cancelled (+) CancelledBy(utterance)

\* initializeCall after checkConnection: not connected is the catch; else
\* initializeSpeechRecognition, then the await of initializeAudioContext
ConnectionChecked(run, isConnected) ==
  /\ BagIn(run, initRuns)
  /\ run.stage = "checking"
  /\ IF isConnected
     THEN /\ recognitionRef' = [present |-> TRUE, state |-> "inactive",
                                muted |-> run.muted]
          /\ orphans' = orphans (+) Orphaned(recognitionRef)
          /\ initRuns' = With(Without(initRuns, run),
                              [run EXCEPT !.stage = "audio"])
          /\ UNCHANGED callStatus
     ELSE /\ callStatus' = Set(callStatus, "error")
          /\ initRuns' = Without(initRuns, run)
          /\ UNCHANGED <<recognitionRef, orphans>>
  /\ UNCHANGED <<mounted, isSpeaking, isRecording, isMuted, conversationHistory,
                 currentTranscript, capabilities, continuous, greetingTimers,
                 restartTimers, utterance, cancelled, inflight, turns, toggles>>
  /\ UNCHANGED apiVars

\* initializeCall after initializeAudioContext: connected, greeting timer set
AudioInitialized(run) ==
  /\ BagIn(run, initRuns)
  /\ run.stage = "audio"
  /\ initRuns' = Without(initRuns, run)
  /\ callStatus' = Set(callStatus, "connected")
  /\ greetingTimers' = greetingTimers + 1
  /\ UNCHANGED <<mounted, isSpeaking, isRecording, isMuted, conversationHistory,
                 currentTranscript, capabilities, continuous, recognitionRef,
                 orphans, restartTimers, utterance, cancelled, inflight, turns,
                 toggles>>
  /\ UNCHANGED apiVars

\* the greeting timer of initializeCall fires
GreetingTimerFires ==
  /\ greetingTimers > 0
  /\ greetingTimers' = greetingTimers - 1
  /\ Speak("greeting")
  /\ UNCHANGED <<mounted, callStatus, isSpeaking, isRecording, isMuted,
                 conversationHistory, currentTranscript, capabilities,
                 continuous, recognitionRef, orphans, initRuns, restartTimers,
                 inflight, turns, toggles>>
  /\ UNCHANGED apiVars

\* a restart timer of utterance.onend or recognition.onend fires
RestartTimerFires ==
  /\ restartTimers > 0
  /\ restartTimers' = restartTimers - 1
  /\ recognitionRef' = Started(recognitionRef)
  /\ UNCHANGED <<mounted, callStatus, isSpeaking, isRecording, isMuted,
                 conversationHistory, currentTranscript, capabilities,
                 continuous, orphans, initRuns, greetingTimers, utterance,
                 cancelled, inflight, turns, toggles>>
  /\ UNCHANGED apiVars

\* utterance.onstart
UtteranceStarts ==
  /\ utterance.state = "queued"
  /\ utterance' = [utterance EXCEPT !.state = "speaking"]
  /\ isSpeaking' = Set(isSpeaking, TRUE)
  /\ callStatus' = Set(callStatus, "speaking")
  /\ UNCHANGED <<mounted, isRecording, isMuted, conversationHistory,
                 currentTranscript, capabilities, continuous, recognitionRef,
                 orphans, initRuns, greetingTimers, restartTimers, cancelled,
                 inflight, turns, toggles>>
  /\ UNCHANGED apiVars

\* the body of utterance.onend for an utterance made while isMuted = muted
OnUtteranceEnd(muted) ==
  /\ isSpeaking' = Set(isSpeaking, FALSE)
  /\ callStatus' = Set(callStatus, "connected")
  /\ IF mounted /\ recognitionRef.present /\ ~muted
     THEN restartTimers < MaxTimers /\ restartTimers' = restartTimers + 1
     ELSE UNCHANGED restartTimers

\* the body of utterance.onerror and what the rejected promise leads to: the
\* catch of handleUserSpeech speaks the error message; if that was the error
\* message itself the call fails; the greeting's promise has no handler
OnUtteranceError(origin, held) ==
  /\ isSpeaking' = Set(isSpeaking, FALSE)
  /\ callStatus' = Set(callStatus, "error")
  /\ IF origin = "response"
     THEN /\ utterance' = [state |-> "queued", origin |-> "errormsg",
                           muted |-> isMuted]
          /\ cancelled' = held.cancelled (+) CancelledBy(held.utterance)
     ELSE /\ utterance' = held.utterance
          /\ cancelled' = held.cancelled

\* the utterance being spoken ends
UtteranceEnds ==
  /\ utterance.state = "speaking"
  /\ utterance' = [utterance EXCEPT !.state = "ended"]
  /\ OnUtteranceEnd(utterance.muted)
  /\ UNCHANGED <<mounted, isRecording, isMuted, conversationHistory,
                 currentTranscript, capabilities, continuous, recognitionRef,
                 orphans, initRuns, greetingTimers, cancelled, inflight, turns,
                 toggles>>
  /\ UNCHANGED apiVars

\* the synthesizer fails on the utterance it holds
UtteranceFails ==
  /\ utterance.state \in {"queued", "speaking"}
  /\ OnUtteranceError(utterance.origin,
                      [utterance |-> NoUtterance, cancelled |-> cancelled])
  /\ UNCHANGED <<mounted, isRecording, isMuted, conversationHistory,
                 currentTranscript, capabilities, continuous, recognitionRef,
                 orphans, initRuns, greetingTimers, restartTimers, inflight,
                 turns, toggles>>
  /\ UNCHANGED apiVars

\* a cancelled utterance gets its last event
CancelledUtteranceEvent(utt, event) ==
  /\ BagIn(utt, cancelled)
  /\ IF event = "end"
     THEN /\ OnUtteranceEnd(utt.muted)
          /\ cancelled' = Without(cancelled, utt)
          /\ UNCHANGED utterance
     ELSE /\ OnUtteranceError(utt.origin,
                              [utterance |-> utterance,
                               cancelled |-> Without(cancelled, utt)])
          /\ UNCHANGED restartTimers
  /\ UNCHANGED <<mounted, isRecording, isMuted, conversationHistory,
                 currentTranscript, capabilities, continuous, recognitionRef,
                 orphans, initRuns, greetingTimers, inflight, turns, toggles>>
  /\ UNCHANGED apiVars

\* recognition.onstart
OnRecognitionStart ==
  /\ isRecording' = Set(isRecording, TRUE)
  /\ callStatus' = Set(callStatus, "listening")
  /\ UNCHANGED <<currentTranscript, conversationHistory, inflight, turns,
                 restartTimers>>

\* recognition.onresult, and handleUserSpeech up to the await of sendMessage
OnRecognitionResult(kind) ==
  /\ isRecording' = isRecording
  /\ IF kind = "interim"
     THEN /\ currentTranscript' = Set(currentTranscript, "interim")
          /\ UNCHANGED <<callStatus, conversationHistory, inflight, turns>>
     ELSE /\ currentTranscript' = Set(currentTranscript, "")
          /\ IF kind = "short"
             THEN UNCHANGED <<callStatus, conversationHistory, inflight, turns>>
             ELSE /\ turns + toggles < MaxUserActs
                  /\ turns' = turns + 1
                  /\ conversationHistory' =
                       Set(conversationHistory,
                           AppendTurn(conversationHistory, "user"))
                  /\ callStatus' = Set(callStatus, "thinking")
                  /\ inflight' = inflight + 1
  /\ UNCHANGED restartTimers

\* recognition.onend of an object made while isMuted = muted
OnRecognitionEnd(muted) ==
  /\ isRecording' = Set(isRecording, FALSE)
  /\ IF /\ mounted
        /\ recognitionRef.present
        /\ ~muted
        /\ callStatus \in {"connected", "listening"}
     THEN restartTimers < MaxTimers /\ restartTimers' = restartTimers + 1
     ELSE UNCHANGED restartTimers
  /\ UNCHANGED <<callStatus, currentTranscript, conversationHistory, inflight,
                 turns>>

\* the start event of the referenced recognition object
RecognitionStarts ==
  /\ recognitionRef.present
  /\ recognitionRef.state = "starting"
  /\ recognitionRef' = [recognitionRef EXCEPT !.state = "active"]
  /\ OnRecognitionStart
  /\ UNCHANGED <<mounted, isSpeaking, isMuted, capabilities, continuous,
                 orphans, initRuns, greetingTimers, utterance, cancelled,
                 toggles>>
  /\ UNCHANGED apiVars

\* a result event of the referenced recognition object
RecognitionResult(kind) ==
  /\ recognitionRef.present
  /\ recognitionRef.state \in {"active", "stopping"}
  /\ recognitionRef' =
       [recognitionRef EXCEPT !.state = AfterResult(recognitionRef.state, kind)]
  /\ OnRecognitionResult(kind)
  /\ UNCHANGED <<mounted, isSpeaking, isMuted, capabilities, continuous,
                 orphans, initRuns, greetingTimers, utterance, cancelled,
                 toggles>>
  /\ UNCHANGED apiVars

\* the end event of the referenced recognition object: after stop(), after
\* the result of a one-shot session, or by itself (silence, an error)
RecognitionEnds ==
  /\ recognitionRef.present
  /\ recognitionRef.state # "inactive"
  /\ recognitionRef' = [recognitionRef EXCEPT !.state = "inactive"]
  /\ OnRecognitionEnd(recognitionRef.muted)
  /\ UNCHANGED <<mounted, isSpeaking, isMuted, capabilities, continuous,
                 orphans, initRuns, greetingTimers, utterance, cancelled,
                 toggles>>
  /\ UNCHANGED apiVars

\* the same events of a recognition object no longer referenced
OrphanStarts(rec) ==
  /\ BagIn(rec, orphans)
  /\ rec.state = "starting"
  /\ orphans' = With(Without(orphans, rec), [rec EXCEPT !.state = "active"])
  /\ OnRecognitionStart
  /\ UNCHANGED <<mounted, isSpeaking, isMuted, capabilities, continuous,
                 recognitionRef, initRuns, greetingTimers, utterance, cancelled,
                 toggles>>
  /\ UNCHANGED apiVars

OrphanResult(rec, kind) ==
  /\ BagIn(rec, orphans)
  /\ rec.state \in {"active", "stopping"}
  /\ orphans' = With(Without(orphans, rec),
                     [rec EXCEPT !.state = AfterResult(rec.state, kind)])
  /\ OnRecognitionResult(kind)
  /\ UNCHANGED <<mounted, isSpeaking, isMuted, capabilities, continuous,
                 recognitionRef, initRuns, greetingTimers, utterance, cancelled,
                 toggles>>
  /\ UNCHANGED apiVars

OrphanEnds(rec) ==
  /\ BagIn(rec, orphans)
  /\ orphans' = Without(orphans, rec)
  /\ OnRecognitionEnd(rec.muted)
  /\ UNCHANGED <<mounted, isSpeaking, isMuted, capabilities, continuous,
                 recognitionRef, initRuns, greetingTimers, utterance, cancelled,
                 toggles>>
  /\ UNCHANGED apiVars

\* sendMessage resolves: the rest of handleUserSpeech up to its await of
\* speakAIMessage
BackendResponds(kind) ==
  /\ inflight > 0
  /\ inflight' = inflight - 1
  /\ IF kind = "ok"
     THEN /\ conversationHistory' =
               Set(conversationHistory, AppendTurn(conversationHistory, "assistant"))
          /\ Speak("response")
     ELSE /\ Speak("errormsg")
          /\ UNCHANGED conversationHistory
  /\ UNCHANGED <<mounted, callStatus, isSpeaking, isRecording, isMuted,
                 currentTranscript, capabilities, continuous, recognitionRef,
                 orphans, initRuns, greetingTimers, restartTimers, turns,
                 toggles>>
  /\ UNCHANGED apiVars

\* the mute button: toggleMute, then, isMuted being a dependency of
\* initializeSpeechRecognition and so of the initialization effect, the
\* effect's cleanup and a new run of initializeCall up to its first await
toggleMute ==
  /\ mounted
  /\ callStatus # "error"
  /\ turns + toggles < MaxUserActs
  /\ toggles' = toggles + 1
  /\ isMuted' = ~isMuted
  /\ isRecording' = IF isMuted THEN isRecording ELSE FALSE
  /\ LET toggled == IF isMuted
                    THEN IF isSpeaking THEN recognitionRef
                         ELSE Started(recognitionRef)
                    ELSE [recognitionRef EXCEPT !.state = Stopped(@)]
         stopped == [toggled EXCEPT !.state = Stopped(@)]
     IN orphans' = orphans (+) Orphaned(stopped)
  /\ recognitionRef' = NoRecognition
  /\ utterance' = NoUtterance
  /\ cancelled' = cancelled (+) CancelledBy(utterance)
  /\ IF CapabilitiesPresent
     THEN /\ initRuns' = With(initRuns,
                              [stage |-> "checking", muted |-> ~isMuted])
          /\ UNCHANGED callStatus
     ELSE /\ callStatus' = "error"
          /\ UNCHANGED initRuns
  /\ UNCHANGED <<mounted, isSpeaking, conversationHistory, currentTranscript,
                 capabilities, continuous, greetingTimers, restartTimers,
                 inflight, turns>>
  /\ UNCHANGED apiVars

\* the end-call button: endCall, cleanup, and the unmount by the page
endCall ==
  /\ mounted
  /\ mounted' = FALSE
  /\ callStatus' = "ended"
  /\ orphans' = orphans
       (+) Orphaned([recognitionRef EXCEPT !.state = Stopped(@)])
  /\ recognitionRef' = NoRecognition
  /\ utterance' = NoUtterance
  /\ cancelled' = cancelled (+) CancelledBy(utterance)
  /\ UNCHANGED <<isSpeaking, isRecording, isMuted, conversationHistory,
                 currentTranscript, capabilities, continuous, initRuns,
                 greetingTimers, restartTimers, inflight, turns, toggles>>
  /\ UNCHANGED apiVars

CallNext ==
  \/ \E run \in BagToSet(initRuns), ok \in BOOLEAN : ConnectionChecked(run, ok)
  \/ \E run \in BagToSet(initRuns) : AudioInitialized(run)
  \/ GreetingTimerFires
  \/ RestartTimerFires
  \/ UtteranceStarts
  \/ UtteranceEnds
  \/ UtteranceFails
  \/ \E utt \in BagToSet(cancelled), e \in CancelEvents :
       CancelledUtteranceEvent(utt, e)
  \/ RecognitionStarts
  \/ \E k \in TranscriptKinds : RecognitionResult(k)
  \/ RecognitionEnds
  \/ \E rec \in BagToSet(orphans) : OrphanStarts(rec)
  \/ \E rec \in BagToSet(orphans), k \in TranscriptKinds : OrphanResult(rec, k)
  \/ \E rec \in BagToSet(orphans) : OrphanEnds(rec)
  \/ \E k \in ResponseKinds : BackendResponds(k)
  \/ toggleMute
  \/ endCall

\* the backend client, one sendMessage call at a time, no call screen events
Init ==
  /\ ApiInit
  /\ CallInit
  /\ capabilities = [recognition |-> TRUE, synthesis |-> TRUE]
  /\ continuous = TRUE
Next == ApiNext
Spec == Init /\ [][Next]_vars

\* the prompt builder on the histories of up to MaxHistoryLen turns, every
\* role in every place, the content of a turn being its place
MaxHistoryLen == 4
Roles == {"system", "user", "assistant"}
PromptHistories ==
  {[i \in 1..Len(r) |-> [role |-> r[i], content |-> i]] :
     r \in UNION {[1..n -> Roles] : n \in 0..MaxHistoryLen}}
BuildPrompt == \E m \in Messages, h \in PromptHistories : SendMessage(m, h)
SpecPrompt == Init /\ [][BuildPrompt]_vars

\* ------------------------------------------------------ sendMessageStream
\* A streaming call keeps in primary what the backend has sent (raw, the
\* response fragments in the order sent) and what the loop has accumulated
\* (fullResponse). A fragment is one chunk. A line of the stream arrives whole
\* in one read, or cut by the boundary of two reads: JSON.parse then fails on
\* both pieces and the line is skipped.
MaxStreamLen == 3
Fragments == RawAlphabet

\* requestBody of sendMessageStream
StreamRequest(message, history) ==
  [PrimaryRequest(message, history) EXCEPT !.kind = "stream"]

\* sendMessageStream up to the await of its fetch
SendMessageStream(message, history) ==
  /\ apiPc = "idle"
  /\ apiPc' = "streaming"
  /\ callArgs' = [message |-> message, history |-> history]
  /\ ctxAtCall' = context
  /\ requests' = <<StreamRequest(message, history)>>
  /\ primary' = [status |-> "streaming", raw |-> <<>>, context |-> NoContext,
                 fullResponse |-> <<>>]
  /\ validation' = NoValidation
  /\ retry' = NoAnswer
  /\ result' = NoResult
  /\ UNCHANGED context
  /\ UNCHANGED apiClient
  /\ UNCHANGED uiVars

\* the fetch rejects, the response is not ok or has no body, or a read
\* rejects: the catch of sendMessageStream
StreamFails(kind) ==
  /\ apiPc \in {"streaming", "streamed"}
  /\ primary' = [primary EXCEPT !.status = "fail"]
  /\ result' = [message |-> <<>>, success |-> FALSE, error |-> kind]
  /\ apiPc' = "done"
  /\ UNCHANGED <<context, callArgs, ctxAtCall, requests, validation, retry>>
  /\ UNCHANGED apiClient
  /\ UNCHANGED uiVars

\* a read delivers a line with a response fragment
StreamLine(fragment, whole) ==
  /\ apiPc = "streaming"
  /\ Len(primary.raw) < MaxStreamLen
  /\ primary' = [primary EXCEPT
                   !.raw = Append(@, fragment),
                   !.fullResponse = IF whole THEN Append(@, fragment) ELSE @]
  /\ UNCHANGED <<context, apiPc, callArgs, ctxAtCall, requests, validation,
                 retry, result>>
  /\ UNCHANGED apiClient
  /\ UNCHANGED uiVars

\* a read delivers the last line, done: true with the context of the answer
StreamDoneLine(respCtx, whole) ==
  /\ apiPc = "streaming"
  /\ apiPc' = "streamed"
  /\ primary' = [primary EXCEPT !.context = respCtx]
  /\ context' = IF whole /\ respCtx.present THEN respCtx.value ELSE context
  /\ UNCHANGED <<callArgs, ctxAtCall, requests, validation, retry, result>>
  /\ UNCHANGED apiClient
  /\ UNCHANGED uiVars

\* as StreamCompletes, but retrying like sendMessage on a flagged text
StreamCompletesRetrying ==
  /\ apiPc \in {"streaming", "streamed"}
  /\ primary' = [primary EXCEPT !.status = "ok"]
  /\ validation' = validateResponse(primary.fullResponse)
  /\ IF NeedsRetry(validation')
     THEN /\ requests' = Append(requests, SimpleRequest(callArgs.message))
          /\ apiPc' = "retry"
          /\ UNCHANGED result
     ELSE /\ result' = [message |-> validation'.cleaned, success |-> TRUE,
                        error |-> "none"]
          /\ apiPc' = "done"
          /\ UNCHANGED requests
  /\ UNCHANGED <<context, callArgs, ctxAtCall, retry>>
  /\ UNCHANGED apiClient
  /\ UNCHANGED uiVars

\* the read that reports the end of the body: the loop is left, the
\* accumulated text validated and returned
StreamCompletes ==
  /\ apiPc \in {"streaming", "streamed"}
  /\ apiPc' = "done"
  /\ primary' = [primary EXCEPT !.status = "ok"]
  /\ validation' = validateResponse(primary.fullResponse)
  /\ result' = [message |-> validation'.cleaned, success |-> TRUE,
                error |-> "none"]
  /\ UNCHANGED <<context, callArgs, ctxAtCall, requests, retry>>
  /\ UNCHANGED apiClient
  /\ UNCHANGED uiVars

\* the streaming variant of the client, one call at a time
NextStream ==
  \/ \E m \in Messages, h \in Histories : SendMessageStream(m, h)
  \/ \E k \in FailKinds : StreamFails(k)
  \/ \E f \in Fragments, whole \in BOOLEAN : StreamLine(f, whole)
  \/ \E c \in ResponseContexts, whole \in BOOLEAN : StreamDoneLine(c, whole)
  \/ StreamCompletes
  \/ Return
SpecStream == Init /\ [][NextStream]_vars

\* the validator on one primary response of up to MaxValLen chunks: a
\* sendMessage call awaits its fetch, the response arrives
MaxValLen == 4
ValTexts == SeqsUpTo(RawAlphabet, MaxValLen)
InitValidate ==
  /\ context = <<>>
  /\ apiClient = ClientOf(DefaultAIConfig)
  /\ apiPc = "primary"
  /\ callArgs \in [message : Messages, history : {<<>>}]
  /\ ctxAtCall = <<>>
  /\ requests = <<PrimaryRequest(callArgs.message, callArgs.history)>>
  /\ primary = NoAnswer
  /\ validation = NoValidation
  /\ retry = NoAnswer
  /\ result = NoResult
  /\ CallInit
  /\ capabilities = [recognition |-> TRUE, synthesis |-> TRUE]
  /\ continuous = TRUE
Validate == \E raw \in ValTexts, c \in ResponseContexts : PrimaryResponds(raw, c)
SpecValidate == InitValidate /\ [][Validate]_vars

\* the retry on one response of up to MaxRetryTextLen chunks: the primary
\* response was an unterminated reasoning span, the simplified request is
\* awaited, its response arrives
MaxRetryTextLen == 3
RetryResponses == SeqsUpTo(RetryAlphabet, MaxRetryTextLen)
InitRetry ==
  /\ context = <<>>
  /\ apiClient = ClientOf(DefaultAIConfig)
  /\ apiPc = "retry"
  /\ callArgs \in [message : Messages, history : {<<>>}]
  /\ ctxAtCall = <<>>
  /\ requests = <<PrimaryRequest(callArgs.message, callArgs.history),
                  SimpleRequest(callArgs.message)>>
  /\ primary = [status |-> "ok", raw |-> <<OPEN>>, context |-> NoContext]
  /\ validation = validateResponse(<<OPEN>>)
  /\ retry = NoAnswer
  /\ result = NoResult
  /\ CallInit
  /\ capabilities = [recognition |-> TRUE, synthesis |-> TRUE]
  /\ continuous = TRUE
RetryAnswered ==
  \E raw \in RetryResponses, c \in ResponseContexts : RetryResponds(raw, c)
SpecRetry == InitRetry /\ [][RetryAnswered]_vars

\* the call screen, sendMessage taken by its result
InitCall == ApiInit /\ CallInit
SpecCall == InitCall /\ [][CallNext]_vars

\* the call screen with what the event loop, the browser and the network
\* deliver sooner or later: timers fire, awaited promises settle, a queued
\* utterance starts and a playing one ends, a started recognition reports its
\* start and a stopped or finished one its end
CallFairness ==
  /\ WF_vars(\E run \in BagToSet(initRuns), ok \in BOOLEAN :
               ConnectionChecked(run, ok))
  /\ WF_vars(\E run \in BagToSet(initRuns) : AudioInitialized(run))
  /\ WF_vars(GreetingTimerFires)
  /\ WF_vars(RestartTimerFires)
  /\ WF_vars(UtteranceStarts)
  /\ WF_vars(UtteranceEnds)
  /\ WF_vars(\E utt \in BagToSet(cancelled), e \in CancelEvents :
               CancelledUtteranceEvent(utt, e))
  /\ WF_vars(RecognitionStarts)
  /\ WF_vars(recognitionRef.state \in {"stopping", "ending"} /\ RecognitionEnds)
  /\ WF_vars(\E rec \in BagToSet(orphans) : OrphanStarts(rec))
  /\ WF_vars(\E rec \in BagToSet(orphans) :
               rec.state \in {"stopping", "ending"} /\ OrphanEnds(rec))
  /\ WF_vars(\E k \in ResponseKinds : BackendResponds(k))
SpecCallFair == SpecCall /\ CallFairness

\* the call screen after the mute button was pressed twice while connecting:
\* the recognition object the second press started and the cleanup dropped
\* has delivered a final transcript, whose request is outstanding; the
\* connection checks of the last two runs of initializeCall failed; the
\* run before them has finished and set its greeting timer; no recognition
\* object is referenced; turns and toggles count from this state on
InitRemuted ==
  /\ ApiInit
  /\ mounted = TRUE
  /\ capabilities = [recognition |-> TRUE, synthesis |-> TRUE]
  /\ continuous \in BOOLEAN
  /\ callStatus = "connected"
  /\ isSpeaking = FALSE
  /\ isRecording = FALSE
  /\ isMuted = FALSE
  /\ conversationHistory = <<"user">>
  /\ currentTranscript = ""
  /\ recognitionRef = NoRecognition
  /\ orphans = EmptyBag
  /\ initRuns = EmptyBag
  /\ greetingTimers = 1
  /\ restartTimers = 0
  /\ utterance = NoUtterance
  /\ cancelled = EmptyBag
  /\ inflight = 1
  /\ turns = 0
  /\ toggles = 0
SpecRemutedFair == InitRemuted /\ [][CallNext]_vars /\ CallFairness

\* -------------------------------------------------------- voice formatter
\* The texts formatted here are one line, hold no markdown, digits, quotes,
\* parentheses, URLs or abbreviations; WORD holds no "think" and starts with
\* no letter that closes an emoticon; DOT is a full stop.
VoiceMaxLength == 500

\* the characters of c that /[^\w\s.,!?]/g leaves in place
ReadableLen(c) ==
  CASE c \in {CJK, CJKS, EMOJI} -> 0
    [] c = PREFIX -> 9
    [] c \in {OPEN, CLOSE} -> 5
    [] OTHER -> CharLen(c)

RECURSIVE ReadableLength(_)
ReadableLength(s) ==
  IF s = <<>> THEN 0 ELSE ReadableLen(Head(s)) + ReadableLength(Tail(s))

\* the text after the first occurrence of c
RECURSIVE AfterFirst(_, _)
AfterFirst(s, c) ==
  IF s = <<>> THEN <<>>
  ELSE IF Head(s) = c THEN Tail(s) ELSE AfterFirst(Tail(s), c)

\* /<think>[\s\S]*?<\/think>/gi, then /<think>[\s\S]*$/gi
RECURSIVE RemoveThinkSpans(_)
RemoveThinkSpans(s) ==
  IF s = <<>> THEN <<>>
  ELSE IF Head(s) = OPEN
       THEN IF Contains(Tail(s), CLOSE)
            THEN RemoveThinkSpans(AfterFirst(Tail(s), CLOSE))
            ELSE <<>>
       ELSE <<Head(s)>> \o RemoveThinkSpans(Tail(s))

\* the spans go; then /^.*?think.*?$/gim empties a line that still holds an
\* end marker
removeThinkTags(text) ==
  LET cleaned == RemoveThinkSpans(text)
  IN IF Contains(cleaned, CLOSE) THEN <<>> ELSE cleaned

\* the Unicode emoji ranges; EMOJI is taken inside them
removeEmoticons(text) == Strip(text, {EMOJI})

\* /[.]{3,}/g -> "..."
RECURSIVE normalizePunctuation(_)
normalizePunctuation(text) ==
  IF Len(text) < 4 THEN text
  ELSE IF \A i \in 1..4 : text[i] = DOT
       THEN normalizePunctuation(Tail(text))
       ELSE <<Head(text)>> \o normalizePunctuation(Tail(text))

\* /\s+/g -> " "; the characters it removes are in none of the chunks left
RECURSIVE cleanupText(_)
cleanupText(text) ==
  IF Len(text) < 2 THEN text
  ELSE IF text[1] = SP /\ text[2] = SP
       THEN cleanupText(Tail(text))
       ELSE <<Head(text)>> \o cleanupText(Tail(text))

\* text.split(/[.!?]+/); the pieces of the greeting are kept whole
RECURSIVE Sentences(_)
Sentences(s) ==
  LET dots == {i \in 1..Len(s) : s[i] = DOT}
  IN IF dots = {} THEN <<s>>
     ELSE LET i == CHOOSE j \in dots : \A k \in dots : j <= k
              rest == SubSeq(s, i + 1, Len(s))
          IN IF rest # <<>> /\ Head(rest) = DOT
             THEN Sentences(SubSeq(s, 1, i - 1) \o rest)
             ELSE <<SubSeq(s, 1, i - 1)>> \o Sentences(rest)

\* the loop of limitLength over the sentences
RECURSIVE TakeSentences(_, _, _)
TakeSentences(sentences, taken, maxLength) ==
  IF sentences = <<>> THEN taken
  ELSE LET trimmedSentence == Trim(Head(sentences))
       IN IF trimmedSentence = <<>>
          THEN TakeSentences(Tail(sentences), taken, maxLength)
          ELSE IF Length(taken) + Length(trimmedSentence) + 1 > maxLength
               THEN taken
               ELSE TakeSentences(
                      Tail(sentences),
                      taken \o (IF taken # <<>> THEN <<SP>> ELSE <<>>)
                        \o trimmedSentence \o <<DOT>>,
                      maxLength)

\* text.split(" ")
RECURSIVE Words(_)
Words(s) ==
  LET sp == {i \in 1..Len(s) : s[i] = SP}
  IN IF sp = {} THEN <<s>>
     ELSE LET i == CHOOSE j \in sp : \A k \in sp : j <= k
          IN <<SubSeq(s, 1, i - 1)>> \o Words(SubSeq(s, i + 1, Len(s)))

\* the loop of limitLength over the words
RECURSIVE TakeWords(_, _, _)
TakeWords(words, taken, maxLength) ==
  IF words = <<>> \/ Length(taken) >= maxLength THEN taken
  ELSE IF Length(taken) + 1 + Length(Head(words)) > maxLength THEN taken
       ELSE TakeWords(
              Tail(words),
              taken \o (IF taken # <<>> THEN <<SP>> ELSE <<>>) \o Head(words),
              maxLength)

limitLength(text, maxLength) ==
  IF Length(text) <= maxLength THEN text
  ELSE LET bySentence == TakeSentences(Sentences(text), <<>>, maxLength)
       IN IF bySentence # <<>> THEN bySentence
          ELSE TakeWords(Words(text), <<>>, maxLength) \o <<DOT>>

\* VoiceFormatter.formatForVoice under DEFAULT_VOICE_CONFIG
formatForVoice(text) ==
  Trim(limitLength(
         cleanupText(normalizePunctuation(removeEmoticons(removeThinkTags(text)))),
         VoiceMaxLength))

\* VoiceFormatter.isSuitableForVoice: readableChars / totalChars > 0.5
isVoiceSuitable(text) ==
  LET formatted == formatForVoice(text)
  IN /\ Trim(formatted) # <<>>
     /\ Length(formatted) > 0
     /\ 2 * ReadableLength(formatted) > Length(formatted)

\* ------------------------------------------------- the texts that are spoken
UnsuitableFallback ==
  <<"Maaf, saya tidak dapat memproses respons tersebut dengan baik.">>
NoResponsePhrase == <<"Maaf, tidak ada respons yang dapat saya berikan.">>
ProcessedPhrase ==
  <<"Saya telah memproses permintaan Anda. Apakah ada yang bisa saya bantu lagi?">>
ErrorPhrase ==
  <<"Maaf, terjadi kesalahan saat berkomunikasi dengan AI. Silakan coba lagi.">>

\* `Halo ${config.userName}! Saya ${config.aiName}. Bagaimana kabar Anda hari ini?`
Greeting(userName, aiName) ==
  <<HALO, SP>> \o userName \o <<SAYA, SP>> \o aiName \o <<KABAR>>

\* config.userName and config.aiName, free text of the preferences dialog
MaxNameLen == 1
Names == SeqsUpTo({WORD, CJKS, SP, DOT, CLOSE}, MaxNameLen)

\* speakAIMessage rejects before it makes an utterance
SpeakRejects(message) ==
  /\ ~isVoiceSuitable(formatForVoice(message))
  /\ Trim(formatForVoice(UnsuitableFallback)) = <<>>

\* the text speakAIMessage gives to new SpeechSynthesisUtterance
TextToSpeak(message) ==
  LET formattedMessage == formatForVoice(message)
  IN IF Trim(formattedMessage) # <<>>
     THEN Trim(formattedMessage)
     ELSE NoResponsePhrase

\* speakAIMessage with the text of its utterance
SpeakMessage(origin, message) ==
  IF SpeakRejects(message)
  THEN UNCHANGED <<utterance, cancelled>>
  ELSE /\ utterance' = [state |-> "queued", origin |-> origin,
                        muted |-> isMuted, text |-> TextToSpeak(message)]
       /\ cancelled' = cancelled (+) CancelledBy(utterance)

\* the greeting timer of initializeCall fires, the greeting with its text
GreetingTimerSpeaks(userName, aiName) ==
  /\ greetingTimers > 0
  /\ greetingTimers' = greetingTimers - 1
  /\ SpeakMessage("greeting", Greeting(userName, aiName))
  /\ UNCHANGED <<mounted, callStatus, isSpeaking, isRecording, isMuted,
                 conversationHistory, currentTranscript, capabilities,
                 continuous, recognitionRef, orphans, initRuns, restartTimers,
                 inflight, turns, toggles>>
  /\ UNCHANGED apiVars

\* sendMessage has resolved to result: the rest of handleUserSpeech up to its
\* await of speakAIMessage, with the text that is spoken
ResponseSpoken ==
  /\ apiPc = "done"
  /\ inflight > 0
  /\ inflight' = inflight - 1
  /\ IF result.success /\ result.message # <<>>
     THEN /\ conversationHistory' =
               Set(conversationHistory, AppendTurn(conversationHistory, "assistant"))
          /\ IF ~isVoiceSuitable(result.message)
             THEN SpeakMessage("response", ProcessedPhrase)
             ELSE SpeakMessage("response", result.message)
     ELSE /\ SpeakMessage("errormsg", ErrorPhrase)
          /\ UNCHANGED conversationHistory
  /\ UNCHANGED <<mounted, callStatus, isSpeaking, isRecording, isMuted,
                 currentTranscript, capabilities, continuous, recognitionRef,
                 orphans, initRuns, greetingTimers, restartTimers, turns,
                 toggles>>
  /\ UNCHANGED apiVars

\* the call connected with its greeting timer pending
InitGreeting ==
  /\ ApiInit
  /\ mounted = TRUE
  /\ capabilities = [recognition |-> TRUE, synthesis |-> TRUE]
  /\ continuous \in BOOLEAN
  /\ callStatus = "connected"
  /\ isSpeaking = FALSE
  /\ isRecording = FALSE
  /\ isMuted = FALSE
  /\ conversationHistory = <<>>
  /\ currentTranscript = ""
  /\ recognitionRef = [present |-> TRUE, state |-> "inactive", muted |-> FALSE]
  /\ orphans = EmptyBag
  /\ initRuns = EmptyBag
  /\ greetingTimers = 1
  /\ restartTimers = 0
  /\ utterance = NoUtterance
  /\ cancelled = EmptyBag
  /\ inflight = 0
  /\ turns = 0
  /\ toggles = 0

\* the greeting played, the capture restarted, the first utterance of the
\* user taken and its request awaiting the backend
InitTurn ==
  /\ context = <<>>
  /\ apiClient = ClientOf(DefaultAIConfig)
  /\ apiPc = "primary"
  /\ callArgs \in [message : Messages, history : {<<>>}]
  /\ ctxAtCall = <<>>
  /\ requests = <<PrimaryRequest(callArgs.message, callArgs.history)>>
  /\ primary = NoAnswer
  /\ validation = NoValidation
  /\ retry = NoAnswer
  /\ result = NoResult
  /\ mounted = TRUE
  /\ capabilities = [recognition |-> TRUE, synthesis |-> TRUE]
  /\ continuous \in BOOLEAN
  /\ callStatus = "thinking"
  /\ isSpeaking = FALSE
  /\ isRecording = TRUE
  /\ isMuted = FALSE
  /\ conversationHistory = <<"user">>
  /\ currentTranscript = ""
  /\ recognitionRef = [present |-> TRUE,
                       state |-> AfterResult("active", "final"),
                       muted |-> FALSE]
  /\ orphans = EmptyBag
  /\ initRuns = EmptyBag
  /\ greetingTimers = 0
  /\ restartTimers = 0
  /\ utterance = [state |-> "ended", origin |-> "greeting", muted |-> FALSE,
                  text |-> TextToSpeak(Greeting(<<WORD>>, <<WORD>>))]
  /\ cancelled = EmptyBag
  /\ inflight = 1
  /\ turns = 1
  /\ toggles = 0

\* what is spoken: the greeting of a call, and the answer to one utterance
InitSpeak == InitGreeting \/ InitTurn
NextSpeak ==
  \/ \E userName \in Names, aiName \in Names :
       GreetingTimerSpeaks(userName, aiName)
  \/ \E k \in FailKinds : PrimaryFails(k)
  \/ \E raw \in PrimaryAnswers, c \in ResponseContexts : PrimaryResponds(raw, c)
  \/ \E k \in FailKinds : RetryFails(k)
  \/ \E raw \in RetryAnswers, c \in ResponseContexts : RetryResponds(raw, c)
  \/ ResponseSpoken
SpecSpeak == InitSpeak /\ [][NextSpeak]_vars

\* ------------------------------------------------- successive call sessions
\* The page shows the call screen, the ended screen, and the call screen
\* again; every mount of the call screen talks to the one APIClient of the
\* module.  Backend answers are drawn from SessionAnswers.
SessionAnswers == {<<WORD>>, <<OPEN>>}

\* the history of the component as the ChatMessage[] passed to sendMessage
ChatMessages(history) ==
  [i \in 1..Len(history) |-> [role |-> history[i], content |-> i]]

\* recognition.onresult with a final transcript: handleUserSpeech up to its
\* await of sendMessage, called with the history of the closure
FinalTranscript(message) ==
  /\ mounted
  /\ recognitionRef.present
  /\ recognitionRef.state = "active"
  /\ recognitionRef' =
       [recognitionRef EXCEPT !.state = AfterResult(recognitionRef.state, "final")]
  /\ OnRecognitionResult("final")
  /\ SendMessageCall(message, ChatMessages(conversationHistory))
  /\ UNCHANGED <<mounted, isSpeaking, isMuted, capabilities, continuous,
                 orphans, initRuns, greetingTimers, utterance, cancelled,
                 toggles>>

\* sendMessage has resolved: the rest of handleUserSpeech
TurnResolves ==
  /\ apiPc = "done"
  /\ BackendResponds(IF result.success /\ result.message # <<>>
                     THEN "ok" ELSE "fail")

\* the call has returned and its result is consumed
TurnOver == inflight = 0 /\ Return

\* "Panggilan Baru" on the ended screen: the page mounts a new call screen,
\* whose state is the initial one and whose mount effect runs initializeCall;
\* getAPIClient hands it the client that exists.  The objects of the previous
\* mount act on that mount's state only and are left out from here on.  The
\* case taken is a new call after the timers and the request of the previous
\* one have run off.
handleStartNewCall ==
  /\ ~mounted
  /\ callStatus = "ended"
  /\ apiPc = "idle"
  /\ inflight = 0
  /\ greetingTimers = 0
  /\ restartTimers = 0
  /\ mounted' = TRUE
  /\ isSpeaking' = FALSE
  /\ isRecording' = FALSE
  /\ isMuted' = FALSE
  /\ conversationHistory' = <<>>
  /\ currentTranscript' = ""
  /\ recognitionRef' = NoRecognition
  /\ orphans' = EmptyBag
  /\ utterance' = NoUtterance
  /\ cancelled' = EmptyBag
  /\ turns' = 0
  /\ toggles' = 0
  /\ IF CapabilitiesPresent
     THEN /\ callStatus' = "connecting"
          /\ initRuns' = SetToBag({[stage |-> "checking", muted |-> FALSE]})
     ELSE /\ callStatus' = "error"
          /\ initRuns' = EmptyBag
  /\ UNCHANGED <<capabilities, continuous, greetingTimers, restartTimers,
                 inflight>>
  /\ UNCHANGED apiVars

SessionsNext ==
  \/ \E run \in BagToSet(initRuns), ok \in BOOLEAN : ConnectionChecked(run, ok)
  \/ \E run \in BagToSet(initRuns) : AudioInitialized(run)
  \/ GreetingTimerFires
  \/ RestartTimerFires
  \/ UtteranceStarts
  \/ UtteranceEnds
  \/ RecognitionStarts
  \/ RecognitionEnds
  \/ \E m \in Messages : FinalTranscript(m)
  \/ \E k \in FailKinds : PrimaryFails(k)
  \/ \E raw \in SessionAnswers, c \in ResponseContexts : PrimaryResponds(raw, c)
  \/ \E k \in FailKinds : RetryFails(k)
  \/ \E raw \in SessionAnswers, c \in ResponseContexts : RetryResponds(raw, c)
  \/ TurnResolves
  \/ TurnOver
  \/ endCall
  \/ handleStartNewCall
SpecSessions == InitCall /\ [][SessionsNext]_vars

\* ------------------------------------------------------------ getAPIClient
\* The module variable apiClient from the load of the module on, with the
\* calls of getAPIClient and the sendMessage calls on the client it returns.
MaxTokensValues == {0, 199, 200, 201, 1500, 4096}
TemperatureValues == {0, 7, 20}
Configs == [maxTokens : MaxTokensValues, temperature : TemperatureValues]
NoConfig == [maxTokens |-> 0, temperature |-> 0]
NoClient ==
  [instance |-> 0, config |-> NoConfig,
   lastCall |-> [given |-> FALSE, config |-> NoConfig, returned |-> 0]]

\* as getAPIClient, but constructing a client whenever a config is given
getAPIClientAnew(given, config) ==
  /\ apiClient' =
       IF given
       THEN [instance |-> apiClient.instance + 1,
             config |-> validateConfig(config),
             lastCall |-> [given |-> TRUE, config |-> config,
                           returned |-> apiClient.instance + 1]]
       ELSE [apiClient EXCEPT
               !.lastCall = [given |-> FALSE, config |-> NoConfig,
                             returned |-> apiClient.instance]]
  /\ apiClient.instance < 2
  /\ context' = IF given THEN <<>> ELSE context
  /\ UNCHANGED <<apiPc, callArgs, ctxAtCall, requests, primary, validation,
                 retry, result>>
  /\ UNCHANGED uiVars

\* getAPIClient(config?): returned 0 is the throw of "API client not
\* initialized"
getAPIClient(given, config) ==
  /\ apiClient' =
       IF apiClient.instance = 0 /\ given
       THEN [instance |-> 1,
             config |-> validateConfig(config),
             lastCall |-> [given |-> TRUE, config |-> config, returned |-> 1]]
       ELSE IF apiClient.instance # 0 /\ given
       THEN [instance |-> apiClient.instance,
             config |-> validateConfig(config),
             lastCall |-> [given |-> TRUE, config |-> config,
                           returned |-> apiClient.instance]]
       ELSE [apiClient EXCEPT
               !.lastCall = [given |-> FALSE, config |-> NoConfig,
                             returned |-> apiClient.instance]]
  /\ UNCHANGED <<context, apiPc, callArgs, ctxAtCall, requests, primary,
                 validation, retry, result>>
  /\ UNCHANGED uiVars

InitClient ==
  /\ context = <<>>
  /\ apiClient = NoClient
  /\ apiPc = "idle"
  /\ callArgs = NoArgs
  /\ ctxAtCall = <<>>
  /\ requests = <<>>
  /\ primary = NoAnswer
  /\ validation = NoValidation
  /\ retry = NoAnswer
  /\ result = NoResult
  /\ CallInit
  /\ capabilities = [recognition |-> TRUE, synthesis |-> TRUE]
  /\ continuous = TRUE

ClientNext ==
  \/ \E config \in Configs : getAPIClient(TRUE, config)
  \/ getAPIClient(FALSE, NoConfig)
  \/ \E m \in Messages :
       apiClient.lastCall.returned # 0 /\ SendMessage(m, <<>>)
  \/ \E k \in FailKinds : PrimaryFails(k)
  \/ \E raw \in SessionAnswers, c \in ResponseContexts : PrimaryResponds(raw, c)
  \/ \E k \in FailKinds : RetryFails(k)
  \/ \E raw \in SessionAnswers, c \in ResponseContexts : RetryResponds(raw, c)
  \/ Return
SpecClient == InitClient /\ [][ClientNext]_vars

\* ------------------------------------------------- recognition result events
\* One result event of the recognition object, with the texts it carries: the
\* concatenation of its interim results and that of its final results.
MaxTranscriptLen == 3
MinTranscriptLength == 2
Transcripts == SeqsUpTo({SP, DOT, WORD}, MaxTranscriptLen)
ResultEvents ==
  {ev \in [interim : {<<>>, <<WORD>>}, final : Transcripts] :
     ev.interim # <<>> \/ ev.final # <<>>}

\* as handleUserSpeechAccepts, but without the test of the length
AcceptsAnyTranscript(transcript) == TRUE

\* if (!transcript || transcript.length < 2) return;
handleUserSpeechAccepts(transcript) ==
  transcript # <<>> /\ Length(transcript) >= MinTranscriptLength

\* what recognition.onresult and handleUserSpeech make of the event
ResultKind(ev) ==
  IF ev.final = <<>> THEN "interim"
  ELSE IF handleUserSpeechAccepts(Trim(ev.final)) THEN "final"
  ELSE "short"

\* recognition.onresult for the event the recognition object holds, with
\* handleUserSpeech up to its await of sendMessage
ResultEvent ==
  /\ recognitionRef.present
  /\ recognitionRef.state = "active"
  /\ ~recognitionRef.delivered
  /\ LET ev == recognitionRef.results
         kind == ResultKind(ev)
     IN /\ recognitionRef' =
             [recognitionRef EXCEPT !.state = AfterResult(recognitionRef.state, kind),
                                    !.delivered = TRUE]
        /\ OnRecognitionResult(kind)
        /\ IF kind = "final"
           THEN SendMessageCall(Trim(ev.final), ChatMessages(conversationHistory))
           ELSE UNCHANGED apiVars
  /\ UNCHANGED <<mounted, isSpeaking, isMuted, capabilities, continuous,
                 orphans, initRuns, greetingTimers, utterance, cancelled,
                 toggles>>

\* the call is listening after its greeting, and the recognizer has a result
InitListening ==
  /\ ApiInit
  /\ mounted = TRUE
  /\ capabilities = [recognition |-> TRUE, synthesis |-> TRUE]
  /\ continuous \in BOOLEAN
  /\ callStatus = "listening"
  /\ isSpeaking = FALSE
  /\ isRecording = TRUE
  /\ isMuted = FALSE
  /\ conversationHistory = <<>>
  /\ currentTranscript = ""
  /\ \E ev \in ResultEvents :
       recognitionRef = [present |-> TRUE, state |-> "active", muted |-> FALSE,
                         results |-> ev, delivered |-> FALSE]
  /\ orphans = EmptyBag
  /\ initRuns = EmptyBag
  /\ greetingTimers = 0
  /\ restartTimers = 0
  /\ utterance = [state |-> "ended", origin |-> "greeting", muted |-> FALSE]
  /\ cancelled = EmptyBag
  /\ inflight = 0
  /\ turns = 0
  /\ toggles = 0

SpecTranscript == InitListening /\ [][ResultEvent]_vars

\* ------------------------------------------------------------ properties
Flagged(v) ==
  Includes(v.issues, IssueUnterminated) \/ Includes(v.issues, IssueForeign)

\* C1: a sendMessage call sends at most two generation requests, the primary
\* one and at most one simplified retry; the retry's response is returned as
\* cleaned by sendSimpleMessage, without validation, and ends the call.
C1_BoundedRetry ==
  /\ Len(requests) <= 2
  /\ Len(requests) >= 1 => requests[1].kind = "primary"
  /\ Len(requests) = 2 => requests[2].kind = "simple"
  /\ retry.status = "ok" =>
       /\ apiPc = "done"
       /\ Len(requests) = 2
       /\ result = [message |-> SimpleClean(retry.raw), success |-> TRUE,
                    error |-> "none"]

\* a backend that answers both requests with flagged output
C1_Witness ==
  /\ apiPc = "done"
  /\ retry.status = "ok"
  /\ Flagged(validateResponse(primary.raw))
  /\ Flagged(validateResponse(retry.raw))

\* C2: the retry is issued exactly when validation of the primary response
\* reports an unterminated reasoning span or foreign script; otherwise the
\* call ends with the validator's cleaned text and success = true.
C2_RetryTrigger ==
  primary.status = "ok" =>
    /\ (Len(requests) = 2) <=> Flagged(validation)
    /\ ~Flagged(validation) =>
         /\ apiPc = "done"
         /\ result = [message |-> validation.cleaned, success |-> TRUE,
                      error |-> "none"]

\* a primary response whose only issue is the truncation one
C2_Witness ==
  /\ primary.status = "ok"
  /\ validation.issues = <<IssueTruncated>>
  /\ apiPc = "done"
  /\ result.success

\* C3: the retry request carries no context field and its prompt holds only
\* the fixed instruction and the current user message.
C3_RetryCarriesNoState ==
  \A i \in 1..Len(requests) :
    requests[i].kind = "simple" =>
      /\ ~requests[i].hasContext
      /\ requests[i].context = <<>>
      /\ requests[i].prompt =
           <<[tag |-> "system", content |-> "simple"],
             [tag |-> "User", content |-> callArgs.message],
             [tag |-> "Asistenqu", content |-> ""]>>

\* a retry sent while a token is stored and a history was passed
C3_Witness ==
  /\ Len(requests) = 2
  /\ requests[1].hasContext
  /\ context # <<>>
  /\ callArgs.history # <<>>

\* C4: the stored token changes in a call only if the primary response was
\* accepted and returned without retry.
C4_TokenOnlyOnAcceptedPrimary ==
  (apiPc \in {"retry", "done"} /\ context # ctxAtCall) =>
    (primary.status = "ok" /\ Len(requests) = 1)

\* C5: the retry path never writes the stored continuation token.
C5_RetryKeepsToken == [][apiPc = "retry" => context' = context]_vars

\* a retry answered with a token other than the stored one
C5_Witness ==
  /\ apiPc = "done"
  /\ retry.status = "ok"
  /\ retry.context.present
  /\ retry.context.value # context

\* C6: a failed retry request ends the call with the fixed fallback greeting
\* and success = false.
C6_RetryFailureFallback ==
  retry.status = "fail" =>
    /\ apiPc = "done"
    /\ result.message = <<"Halo! Ada yang bisa saya bantu?">>
    /\ result.success = FALSE
    /\ result.error \in FailKinds

C6_Witness == retry.status = "fail" /\ Len(requests) = 2

\* C7: a primary response with more start markers than end markers is
\* flagged, retried exactly once, and the text returned has no start marker.
C7_NoStartMarkerReturned ==
  (primary.status = "ok" /\ Count(primary.raw, OPEN) > Count(primary.raw, CLOSE)) =>
    /\ Includes(validation.issues, IssueUnterminated)
    /\ Len(requests) = 2
    /\ apiPc = "done" => ~Contains(result.message, OPEN)

\* C8: when start markers outnumber end markers, the cleaned text holds no
\* start marker without a following end marker.
NoDanglingStart(t) ==
  \A i \in 1..Len(t) : t[i] = OPEN => \E j \in (i + 1)..Len(t) : t[j] = CLOSE

C8_NoDanglingFragment ==
  (primary.status = "ok" /\ Includes(validation.issues, IssueUnterminated)) =>
    NoDanglingStart(validation.cleaned)

\* a recognition object, referenced or not, is capturing speech
CaptureRunning ==
  \/ recognitionRef.present /\ recognitionRef.state = "active"
  \/ \E rec \in BagToSet(orphans) : rec.state = "active"

\* C9: at most one generation request is in flight at any time during a
\* call: a user utterance starts no new backend request while the request of
\* a previous turn has not returned.
C9_OneRequestInFlight == inflight <= 1

\* C10: strict turn-taking: in every state where a generation request is
\* outstanding or an utterance is playing, speech capture is paused, that is,
\* no recognition is running.
C10_StrictTurnTaking ==
  (inflight > 0 \/ utterance.state = "speaking") => ~CaptureRunning

\* the number of recognition objects, referenced or not, capturing speech
ActiveCaptures ==
  (IF recognitionRef.present /\ recognitionRef.state = "active" THEN 1 ELSE 0)
    + CopiesIn([state |-> "active", muted |-> FALSE], orphans)
    + CopiesIn([state |-> "active", muted |-> TRUE], orphans)

\* C11: there are never two simultaneous active capture sessions (and never
\* two active utterances): every start of capture happens while no other
\* capture session is active, under any interleaving of restarts, mute
\* toggles and re-initialization.
C11_OneCaptureSession == ActiveCaptures <= 1

\* C12: the conversation history strictly alternates: no two consecutive
\* entries are user turns without an assistant turn between them, also
\* after a turn whose backend request failed.
C12_HistoryAlternates ==
  \A i \in 1..(Len(conversationHistory) - 1) :
    ~(conversationHistory[i] = "user" /\ conversationHistory[i + 1] = "user")

\* C13: the history is appended to only after a turn has fully completed:
\* it never contains a user turn whose generation request is still
\* outstanding.
C13_NoUserTurnWhileOutstanding ==
  inflight > 0 =>
    (conversationHistory = <<>>
       \/ conversationHistory[Len(conversationHistory)] # "user")

\* a recognition object, referenced or not, has been started and not ended
CaptureRequested ==
  \/ recognitionRef.present /\ recognitionRef.state \in {"starting", "active"}
  \/ \E rec \in BagToSet(orphans) : rec.state \in {"starting", "active"}

\* the last utterance has played to its end and none was spoken since, the
\* call still shown and not muted
PlaybackOver ==
  /\ utterance.state = "ended"
  /\ mounted
  /\ ~isMuted

\* C14: whenever an utterance has finished playing while the call is active
\* and not muted, speech capture is eventually restarted (unless the call
\* ends, fails or is muted first).
C14_CaptureResumes ==
  PlaybackOver ~>
    (CaptureRequested \/ ~mounted \/ isMuted \/ callStatus = "error")

\* C15: the unterminated reasoning span is reported exactly when the raw text
\* has strictly more start markers than end markers; equal counts, or more
\* end markers, never report it.
C15_UnterminatedExactly ==
  primary.status = "ok" =>
    (Includes(validation.issues, IssueUnterminated)
       <=> Count(primary.raw, OPEN) > Count(primary.raw, CLOSE))

C15_Witness ==
  /\ primary.status = "ok"
  /\ Includes(validation.issues, IssueUnterminated)
  /\ Count(primary.raw, CLOSE) = 1
  /\ Count(primary.raw, OPEN) = 2

\* the last character of the text is one of . ! ?
EndsWithPunctuation(t) == t # <<>> /\ t[Len(t)] = DOT

\* C16, as stated: the truncation issue is reported exactly when the raw
\* text is longer than 50 characters, does not end with sentence-final
\* punctuation, and its start-marker and end-marker counts are unequal.
C16_TruncatedLiteral ==
  primary.status = "ok" =>
    (Includes(validation.issues, IssueTruncated)
       <=> /\ Length(primary.raw) > TruncationThreshold
           /\ ~EndsWithPunctuation(primary.raw)
           /\ Count(primary.raw, OPEN) # Count(primary.raw, CLOSE))

\* C16, amended: the truncation issue is reported exactly when the raw text
\* is longer than 50 characters, does not end with sentence-final
\* punctuation once surrounding whitespace is trimmed, and its start-marker
\* and end-marker counts are unequal.
C16_TruncatedExactly ==
  primary.status = "ok" =>
    (Includes(validation.issues, IssueTruncated)
       <=> /\ Length(primary.raw) > TruncationThreshold
           /\ ~EndsWithPunctuation(Trim(primary.raw))
           /\ Count(primary.raw, OPEN) # Count(primary.raw, CLOSE))

\* a long text with unequal markers, ending in punctuation and then
\* whitespace, has been validated and is not called truncated
C16_Witness ==
  /\ primary.status = "ok"
  /\ Length(primary.raw) > TruncationThreshold
  /\ Count(primary.raw, OPEN) # Count(primary.raw, CLOSE)
  /\ primary.raw[Len(primary.raw)] = SP
  /\ EndsWithPunctuation(Trim(primary.raw))
  /\ ~Includes(validation.issues, IssueTruncated)

\* C17: the three heuristics are independent and all evaluated on the raw
\* text: the foreign-script issue is reported exactly when the raw text has a
\* CJK character, also when that character lies in the part cut off as an
\* unterminated span; cutting never suppresses the truncation issue either;
\* and the result is complete exactly when no issue is reported.
C17_IndependentHeuristics ==
  primary.status = "ok" =>
    /\ Includes(validation.issues, IssueForeign) <=> Contains(primary.raw, CJK)
    /\ Includes(validation.issues, IssueTruncated)
         <=> /\ Length(primary.raw) > TruncationThreshold
             /\ ~EndsWithPunctuation(Trim(primary.raw))
             /\ Count(primary.raw, OPEN) # Count(primary.raw, CLOSE)
    /\ validation.isComplete <=> validation.issues = <<>>
    /\ validation.isComplete
         <=> ~\E issue \in {IssueUnterminated, IssueForeign, IssueTruncated} :
                Includes(validation.issues, issue)

\* all three issues reported at once, the CJK character cut off with the
\* unterminated span
C17_Witness ==
  /\ primary.status = "ok"
  /\ Len(validation.issues) = 3
  /\ Contains(primary.raw, CJK)
  /\ ~Contains(validation.cleaned, CJK)

\* what trimming and the cut at a dangling start marker leave of the raw text
AfterCleanup(response) ==
  IF Count(response, OPEN) > Count(response, CLOSE)
       /\ LastIndexOf(response, OPEN) > LastIndexOf(response, CLOSE)
  THEN Trim(Substring0(response, LastIndexOf(response, OPEN)))
  ELSE Trim(response)

\* C18: the validator's cleaned text is never empty and never the bare role
\* prefix "Asistenqu:": whenever trimming and truncation leave nothing or
\* only that prefix, the cleaned text is the clarification fallback phrase.
C18_CleanedNeverEmpty ==
  primary.status = "ok" =>
    /\ validation.cleaned # <<>>
    /\ validation.cleaned # <<PREFIX>>
    /\ AfterCleanup(primary.raw) \in {<<>>, <<PREFIX>>}
         => validation.cleaned = ClarificationFallback

\* the cut at the dangling start marker left only the role prefix
C18_Witness ==
  /\ primary.status = "ok"
  /\ Contains(primary.raw, OPEN)
  /\ AfterCleanup(primary.raw) = <<PREFIX>>
  /\ validation.cleaned = ClarificationFallback

\* C19: the text of every utterance handed to the speech synthesizer, on
\* the greeting, response and error paths alike, passes isVoiceSuitable: a
\* message that fails it is replaced by a fixed phrase.
C19_OnlySuitableTextSpoken ==
  utterance.state # "none" => isVoiceSuitable(utterance.text)

\* C20: when speech recognition or speech synthesis is missing, the call
\* shown is in the error state and nothing has been started: no connection
\* check or audio context (no run of initializeCall is pending), no capture
\* session, no timer, no utterance and no request.
C20_MissingCapabilityStartsNothing ==
  ~(capabilities.recognition /\ capabilities.synthesis) =>
    /\ mounted => callStatus = "error"
    /\ initRuns = EmptyBag
    /\ ~recognitionRef.present /\ orphans = EmptyBag
    /\ ~isRecording /\ ~isSpeaking
    /\ greetingTimers = 0 /\ restartTimers = 0
    /\ utterance = NoUtterance /\ cancelled = EmptyBag
    /\ inflight = 0

\* a call screen mounted in a browser without speech recognition
C20_Witness ==
  /\ ~capabilities.recognition
  /\ capabilities.synthesis
  /\ mounted
  /\ callStatus = "error"
  /\ initRuns = EmptyBag

\* C21: the error state is terminal: a step taken with the call status
\* "error" leaves it "error" or makes it "ended", whatever the event.
C21_ErrorIsTerminal ==
  [][callStatus = "error" => callStatus' \in {"error", "ended"}]_vars

\* C22: only a failure of initialization is fatal: a step that puts the call
\* into the error state is a step of a run of initializeCall (it ends that
\* run); no utterance event, backend answer or recognition event does it.
C22_OnlyInitializationIsFatal ==
  [][(callStatus # "error" /\ callStatus' = "error") => initRuns' # initRuns]_vars

\* sendMessage failed in a turn and the error phrase has been handed to the
\* synthesizer, the call still shown and not muted
ApologyQueued ==
  /\ utterance.origin = "errormsg"
  /\ utterance.state = "queued"
  /\ mounted
  /\ ~isMuted

\* C23: a backend failure in a turn is not fatal: once the error phrase is
\* handed to the synthesizer, speech capture eventually runs again (unless
\* the call ends, is muted or the synthesizer fails first).
C23_CallContinuesAfterFailure ==
  ApologyQueued ~>
    (CaptureRequested \/ ~mounted \/ isMuted \/ callStatus = "error")

\* C24: when the primary request fails, sendMessage has resolved to an error
\* result (success false, empty message, the error text), has sent the
\* primary request only, and the stored token is the one the call found.
C24_PrimaryFailureIsAnErrorResult ==
  primary.status = "fail" =>
    /\ apiPc = "done"
    /\ ~result.success
    /\ result.message = <<>>
    /\ result.error \in FailKinds
    /\ Len(requests) = 1
    /\ requests[1].kind = "primary"
    /\ retry = NoAnswer
    /\ context = ctxAtCall

\* a failed primary request of a client that holds a token
C24_Witness ==
  /\ primary.status = "fail"
  /\ apiPc = "done"
  /\ context # <<>>

WindowPlaces(h) ==
  {i \in 1..Len(h) : i > Len(h) - HistoryWindow
                       /\ h[i].role \in {"user", "assistant"}}

\* C26: the primary prompt holds, between the system prompt and the current
\* message, exactly the user and assistant turns among the last three of the
\* history passed in, in their order; the current message is the last user
\* line, before the open assistant line; the history passed in is intact.
C26_BoundedContextWindow ==
  apiPc = "primary" =>
    LET prompt == requests[1].prompt
        h == callArgs.history
        lines == SubSeq(prompt, 2, Len(prompt) - 2)
    IN /\ h \in PromptHistories
       /\ prompt[1].tag = "system"
       /\ Len(lines) = Cardinality(WindowPlaces(h))
       /\ Len(lines) <= HistoryWindow
       /\ \A i \in WindowPlaces(h) :
            LET k == Cardinality({j \in WindowPlaces(h) : j <= i})
            IN lines[k] = [tag |-> IF h[i].role = "user" THEN "User"
                                   ELSE "Asistenqu",
                           content |-> h[i].content]
       /\ prompt[Len(prompt) - 1] = [tag |-> "User", content |-> callArgs.message]
       /\ prompt[Len(prompt)] = [tag |-> "Asistenqu", content |-> ""]

\* a prompt built from a history longer than the window, with a system turn
\* inside the window
C26_Witness ==
  /\ apiPc = "primary"
  /\ Len(callArgs.history) > HistoryWindow
  /\ \E i \in WindowPlaces(callArgs.history) : TRUE
  /\ Cardinality(WindowPlaces(callArgs.history)) < HistoryWindow

\* C27: within a call session the history starts empty and every change of
\* it appends exactly one turn at its end, whatever else happens (a mute
\* toggle, an error, a re-initialization).
C27_HistoryAppendOnly ==
  /\ conversationHistory = <<>>
  /\ [][conversationHistory' # conversationHistory =>
          \E role \in {"user", "assistant"} :
            conversationHistory' = Append(conversationHistory, role)]_vars

\* a history of two turns that has gone through a mute toggle
C27_Witness ==
  /\ Len(conversationHistory) = 2
  /\ toggles > 0

\* C28: a primary response that carries a token leaves exactly that token
\* stored, one without a token leaves the stored token as it was; clearContext
\* leaves the stored token empty; a primary request carries the stored token
\* if there is one and no context field if it is empty.
C28_TokenReplacedWholesale ==
  [][/\ (apiPc = "primary" /\ primary'.status = "ok") =>
          context' = IF primary'.context.present
                     THEN primary'.context.value ELSE context
     /\ (apiPc = "idle" /\ apiPc' = "idle") => context' = <<>>
     /\ (apiPc = "idle" /\ apiPc' = "primary") =>
          /\ requests'[1].hasContext = (context # <<>>)
          /\ requests'[1].hasContext => requests'[1].context = context]_vars

\* a call that began with one token stored and ended with another, which is
\* the one its primary response carried
C28_Witness ==
  /\ apiPc = "done"
  /\ primary.status = "ok"
  /\ primary.context.present
  /\ ctxAtCall # <<>>
  /\ primary.context.value # ctxAtCall
  /\ retry.status = "none"
  /\ context = primary.context.value

\* C29: the first primary request of a call session carries no continuation
\* token, whatever the sessions before it left in the client.
C29_NewSessionStartsWithoutToken ==
  (mounted /\ apiPc = "primary" /\ turns = 1) => ~requests[1].hasContext

\* the call as it was before the result event: listening, nothing said yet,
\* no request made
Undisturbed ==
  /\ callStatus = "listening"
  /\ conversationHistory = <<>>
  /\ inflight = 0
  /\ apiPc = "idle"
  /\ requests = <<>>

\* C30: a result event without a final transcript changes the displayed
\* transcript only; a final transcript is trimmed, and one that is then empty
\* or shorter than 2 characters is dropped with no history append, no status
\* change and no request; any other goes, trimmed, to the backend.
C30_OnlyFinalTranscriptsActedOn ==
  recognitionRef.delivered =>
    LET ev == recognitionRef.results
        trimmed == Trim(ev.final)
    IN /\ ev.final = <<>> => Undisturbed /\ currentTranscript = "interim"
       /\ (ev.final # <<>> /\ Length(trimmed) < MinTranscriptLength) =>
            Undisturbed
       /\ (ev.final # <<>> /\ Length(trimmed) >= MinTranscriptLength) =>
            /\ conversationHistory = <<"user">>
            /\ callStatus = "thinking"
            /\ apiPc = "primary"
            /\ callArgs.message = trimmed

\* a final transcript of one character between spaces has been delivered
C30_Witness ==
  /\ recognitionRef.delivered
  /\ recognitionRef.results.final # <<>>
  /\ Trim(recognitionRef.results.final) # recognitionRef.results.final
  /\ Length(Trim(recognitionRef.results.final)) = 1

\* C31: whatever configuration the client was given, the output-token budget
\* of the retry request is strictly smaller than that of the primary request
\* of the same call, and than the budget any primary request would get.
C31_RetryBudgetIsLower ==
  /\ apiClient.instance # 0 => SimpleNumPredict < apiClient.config.maxTokens
  /\ Len(requests) = 2 =>
       /\ requests[1].kind = "primary"
       /\ requests[2].kind = "simple"
       /\ requests[2].numPredict < requests[1].numPredict

\* a retry made by a client whose configured maxTokens is below the retry's
C31_Witness ==
  /\ Len(requests) = 2
  /\ apiClient.lastCall.given
  /\ apiClient.lastCall.config.maxTokens < SimpleNumPredict
  /\ requests[1].numPredict = apiClient.config.maxTokens

\* C32: when a streaming call has read its stream to the end, the text it
\* accumulated is the fragments of all lines the backend sent, in order, and
\* the token of the last line is the stored one, however the lines were cut
\* into reads.
C32_StreamSurvivesSplitReads ==
  (apiPc = "done" /\ primary.status = "ok" /\ requests[1].kind = "stream") =>
    /\ primary.fullResponse = primary.raw
    /\ primary.context.present => context = primary.context.value

\* C33: a sendMessage result with success = true has a message that is
\* neither empty nor made of whitespace only, whether it is the cleaned
\* primary response or the cleaned retry response.
C33_SuccessfulMessageHasContent ==
  (apiPc = "done" /\ result.success) => Trim(result.message) # <<>>

\* C34: a sendMessage result with success = true has no character of
\* U+4E00..U+9FFF in its message: a primary response with such a character is
\* not returned but retried, and the retry's response is returned without
\* them.
C34_NoForeignScriptReturned ==
  (apiPc = "done" /\ result.success) =>
    /\ ~Contains(result.message, CJK)
    /\ Contains(primary.raw, CJK) => Len(requests) = 2 /\ retry.status = "ok"

\* both the primary response and the retry response had such a character
C34_Witness ==
  /\ apiPc = "done"
  /\ result.success
  /\ Contains(primary.raw, CJK)
  /\ Contains(retry.raw, CJK)

\* C35: a streaming call sends one request and no retry, whatever issues the
\* validation of the accumulated text reports, and its result has success =
\* true whenever the stream was read to its end.
C35_StreamNeverRetries ==
  (Len(requests) >= 1 /\ requests[1].kind = "stream") =>
    /\ Len(requests) = 1
    /\ retry.status = "none"
    /\ apiPc # "retry"
    /\ primary.status = "ok" => apiPc = "done" /\ result.success

\* a stream read to its end whose text has an unterminated reasoning span or
\* foreign script
C35_Witness ==
  /\ apiPc = "done"
  /\ requests[1].kind = "stream"
  /\ primary.status = "ok"
  /\ NeedsRetry(validation)
  /\ result.success

\* C36: once the call has been ended no utterance is handed to the
\* synthesizer and no recognition object is started, whatever timer fires or
\* response arrives afterwards.
C36_NothingStartsAfterEnd ==
  [][~mounted =>
       /\ utterance'.state = "queued" => utterance' = utterance
       /\ recognitionRef'.state = "starting" => recognitionRef' = recognitionRef
       /\ \A rec \in BagToSet(orphans') :
            rec.state = "starting" => BagIn(rec, orphans)]_vars

\* C37: while the call is muted no recognition object is started or
\* capturing, the referenced one or one left behind, and no user turn is
\* taken.
C37_MutedMeansNoCapture ==
  [][(mounted' /\ isMuted') =>
       /\ recognitionRef'.state \notin {"starting", "active"}
       /\ \A rec \in BagToSet(orphans') : rec.state \notin {"starting", "active"}
       /\ isMuted => conversationHistory' = conversationHistory
                      \/ conversationHistory' =
                           Append(conversationHistory, "assistant")]_vars

\* C38: a press of the mute button leaves the utterance the synthesizer
\* holds, the runs of initializeCall and the greeting timers as they were: it
\* cancels nothing and starts no initialization.
C38_MuteOnlyTouchesCapture ==
  [][toggles' # toggles =>
       /\ utterance' = utterance
       /\ cancelled' = cancelled
       /\ initRuns' = initRuns
       /\ greetingTimers' = greetingTimers]_vars

\* C39: there is at most one client; a getAPIClient call with a config
\* constructs it if there is none, and otherwise returns the one there is
\* with the config replaced; a call without a config returns the one there
\* is unchanged, or throws and creates none if there is none; no call changes
\* the stored token.
C39_ClientIsASingleton ==
  /\ [](/\ apiClient.instance \in {0, 1}
        /\ apiClient.instance = 0 => apiClient.lastCall.returned = 0)
  /\ [][apiClient' # apiClient =>
          LET call == apiClient'.lastCall
          IN /\ context' = context
             /\ call.returned = apiClient'.instance
             /\ apiClient.instance # 0 => apiClient'.instance = apiClient.instance
             /\ apiClient.instance = 0 => call.given /\ apiClient'.instance = 1
             /\ apiClient'.config =
                  IF call.given
                  THEN [maxTokens |-> Max(call.config.maxTokens, MinMaxTokens),
                        temperature |->
                          Min(Max(call.config.temperature, MinTemperature),
                              MaxTemperature)]
                  ELSE apiClient.config]_vars

\* the config was replaced after a request had been built, while a token was
\* stored, and the token is still the stored one
C39_Witness ==
  /\ apiClient.instance = 1
  /\ apiClient.lastCall.given
  /\ Len(requests) >= 1
  /\ requests[1].numPredict # apiClient.config.maxTokens
  /\ ctxAtCall # <<>>
  /\ context = ctxAtCall
====
